---- MODULE Spec2Model ----
(***************************************************************************)
(* Model of route.py: a Streamlit script that loads bridge records,        *)
(* classifies them by direction, numbers them per direction, draws a       *)
(* route diagram with grouped labels and a list page, and offers both as   *)
(* a two-page PDF.                                                         *)
(*                                                                         *)
(* Units.  Every km value is an integer number of hundredths of a km       *)
(* (the widget step of group_threshold_km is 0.01).  y coordinates are     *)
(* hundredths as well.  The x position of a group label involves the mean  *)
(* of the group's km, so label x positions are kept in hundredths times    *)
(* XScale, a common multiple of every possible group size: the mean is     *)
(* then an exact integer.  Arithmetic is exact: the km values and the       *)
(* thresholds of the specifications are chosen so that no comparison of    *)
(* the program falls within a rounding error of binary floating point.     *)
(*                                                                         *)
(* Strings are sequences of tokens; str.contains is a search for a token   *)
(* and str.replace removes a token subsequence.                            *)
(*                                                                         *)
(* A Streamlit script is rerun from top to bottom at every widget          *)
(* interaction: each action is one interaction followed by the whole run.  *)
(***************************************************************************)
EXTENDS Integers, Sequences, FiniteSets

\* ---------------------------------------------------------------- bounds
\* rows of data.csv in the specification Spec
MaxRows == 3
\* rows of data.csv in the specification SpecGroup
MaxGroupRows == 4
\* rows of data.csv in the specification SpecLayout
MaxLayoutRows == 7

\* ------------------------------------------------------- values and text
\* a km cell that pd.to_numeric(errors="coerce") could not read
NaN == 999999

Abs(x) == IF x < 0 THEN -x ELSE x

Max(a, b) == IF a > b THEN a ELSE b

Min(a, b) == IF a < b THEN a ELSE b

\* str.contains(tok)
Contains(s, tok) == \E i \in 1..Len(s) : s[i] = tok

\* does pat occur in s at position i
MatchAt(s, pat, i) ==
    /\ i + Len(pat) - 1 <= Len(s)
    /\ \A j \in 1..Len(pat) : s[i + j - 1] = pat[j]

RECURSIVE ReplaceFrom(_, _, _)
ReplaceFrom(s, pat, i) ==
    IF i > Len(s) THEN <<>>
    ELSE IF MatchAt(s, pat, i) THEN ReplaceFrom(s, pat, i + Len(pat))
    ELSE <<s[i]>> \o ReplaceFrom(s, pat, i + 1)

\* str.replace(pat, ""): every occurrence, left to right
Replace(s, pat) == ReplaceFrom(s, pat, 1)

RECURSIVE Strip(_)
\* str.strip()
Strip(s) ==
    IF s = <<>> THEN s
    ELSE IF Head(s) = " " THEN Strip(Tail(s))
    ELSE IF s[Len(s)] = " " THEN Strip(SubSeq(s, 1, Len(s) - 1))
    ELSE s

\* the column of display names
DisplayName(name) ==
    Strip(Replace(Replace(name, <<"(", "Yeongam", ")">>), <<"(", "Suncheon", ")">>))

\* ------------------------------------------------------------ data.csv
NameNeutral == <<"Gyo">>
NameYeongam == <<"Gyo", " ", "(", "Yeongam", ")">>
NameSuncheon == <<"Gyo", "(", "Suncheon", ")">>
NameBoth == <<"Yeongam", "Suncheon", "Gyo">>

TypeBridge == <<"Bridge">>
TypeIC == <<"IC">>

\* the rows data.csv may hold in Spec: every kind of name, and IC rows
Rows ==
    [name : {NameNeutral, NameYeongam, NameSuncheon, NameBoth},
     km : {2000}, type : {TypeBridge}]
    \cup [name : {NameNeutral}, km : {NaN, 3000}, type : {TypeIC}]

\* in SpecGroup: km values within a threshold of the next, equal, and unknown
GroupRows ==
    [name : {NameNeutral}, km : {NaN, 100, 104}, type : {TypeBridge}]
    \cup [name : {NameYeongam}, km : {102}, type : {TypeBridge}]

\* in SpecLayout: row i is 0.50 km, near the left edge, or a rung of a ladder
\* of km values 0.10 apart that reaches down to the edge margin
LadderKm(i) == 220 - 10 * i

LayoutCsvs ==
    {[i \in 1..k |-> [name |-> NameNeutral,
                      km |-> IF i \in S THEN 50 ELSE LadderKm(i),
                      type |-> TypeBridge]] :
        k \in 0..MaxLayoutRows, S \in SUBSET (1..MaxLayoutRows)}

\* load_data and the columns added to df: the pandas index and the display name
LoadData(csv) ==
    [i \in 1..Len(csv) |->
        [idx |-> i - 1, name |-> csv[i].name, km |-> csv[i].km,
         type |-> csv[i].type, disp |-> DisplayName(csv[i].name)]]

DataFrames(rows, n) == {LoadData(csv) : csv \in UNION {[1..k -> rows] : k \in 0..n}}

LayoutFrames == {LoadData(csv) : csv \in LayoutCsvs}

\* the values the user gives the number_input
Thresholds == {-1, 0, 3}

VARIABLES
    df,                  \* the loaded records
    selected_yeongam,    \* multiselect, a set of names
    selected_suncheon,   \* multiselect, a set of names
    group_threshold_km,  \* number_input
    button,              \* what st.button returned in the latest run
    df_up_sorted,        \* numbered records of the Yeongam direction
    df_down_sorted,      \* numbered records of the Suncheon direction
    ic_km,               \* <<>> for None, <<km>> otherwise
    groups,              \* what iter_groups yielded in the latest draw_route
    preview,             \* figures shown by st.pyplot
    pdf_buffer,          \* the pages saved to the PDF
    download_button      \* is the download offered

vars == <<df, selected_yeongam, selected_suncheon, group_threshold_km, button,
          df_up_sorted, df_down_sorted, ic_km, groups, preview, pdf_buffer,
          download_button>>

\* ------------------------------------------------- direction (section 3)
has_yeongam(row) == Contains(row.name, "Yeongam")

has_suncheon(row) == Contains(row.name, "Suncheon")

\* neutral, had the Suncheon test been left out
neutral_yeongam_only(row) == ~has_yeongam(row)

neutral(row) == ~(has_yeongam(row) \/ has_suncheon(row))

InUpBase(row) == has_yeongam(row) \/ neutral(row)

InDownBase(row) == has_suncheon(row) \/ neutral(row)

df_up_base == SelectSeq(df, InUpBase)

df_down_base == SelectSeq(df, InDownBase)

yeongam_options == {df_up_base[i].name : i \in 1..Len(df_up_base)}

suncheon_options == {df_down_base[i].name : i \in 1..Len(df_down_base)}

\* ------------------------------------- selection and numbers (section 5)
IsIn(d, names) ==
    LET keep(row) == row.name \in names IN SelectSeq(d, keep)

df_up(sel) == IF sel # {} THEN IsIn(df, sel) ELSE df_up_base

df_down(sel) == IF sel # {} THEN IsIn(df, sel) ELSE df_down_base

\* does a come before b in sort_values(KM_COL, ascending): NaN goes last
Before(a, b, ascending) ==
    /\ a.km # NaN
    /\ \/ b.km = NaN
       \/ IF ascending THEN a.km < b.km ELSE a.km > b.km

RECURSIVE Insert(_, _, _)
Insert(sorted, row, ascending) ==
    IF sorted = <<>> THEN <<row>>
    ELSE IF Before(row, Head(sorted), ascending)
         THEN <<row>> \o sorted
         ELSE <<Head(sorted)>> \o Insert(Tail(sorted), row, ascending)

RECURSIVE SortFrom(_, _, _)
SortFrom(d, i, ascending) ==
    IF i = 0 THEN <<>>
    ELSE Insert(SortFrom(d, i - 1, ascending), d[i], ascending)

\* sort_values, had the frame been left in file order
sort_values_unsorted(d, ascending) == d

\* sort_values(KM_COL, ascending=...): rows of equal km keep their order
sort_values(d, ascending) == SortFrom(d, Len(d), ascending)

\* reset_index(drop=True)
reset_index(d) ==
    [i \in 1..Len(d) |-> [d[i] EXCEPT !.idx = i - 1]]

\* the number column: d.index + 1
AddNum(d) ==
    [i \in 1..Len(d) |->
        [idx |-> d[i].idx, name |-> d[i].name, km |-> d[i].km,
         type |-> d[i].type, disp |-> d[i].disp, num |-> d[i].idx + 1]]

Numbered(d, ascending) == AddNum(reset_index(sort_values(d, ascending)))

\* ------------------------------------------------------- IC (section 6)
ic_rows == LET isIC(row) == Contains(row.type, "IC") IN SelectSeq(df, isIC)

IcKm == IF ic_rows # <<>> /\ ic_rows[1].km # NaN THEN <<ic_rows[1].km>> ELSE <<>>

\* ------------------------------------------------ route page (section 7)
MIN_KM == 0
MAX_KM == 10680
y_up == 100
y_down == 0
EDGE_MARGIN_KM == 150
TEXT_DY == 40

X_OFFSETS == <<-80, 80, -160, 160, -240, 240>>

UP_Y_LEVELS ==
    <<y_up + 12, y_up - 10, y_up + 4, y_up - 18, y_up + 20, y_up - 28>>

DOWN_Y_LEVELS ==
    <<y_down + 12, y_down - 10, y_down + 20, y_down - 18, y_down + 28, y_down - 26>>

FIXED_POINTS ==
    <<<<"Seoyeongam", 38>>, <<"Haksan", 534>>, <<"Gangjin", 1953>>,
      <<"Jangheung", 3826>>, <<"Jisa gijun", 6100>>, <<"Beolgyo", 7971>>,
      <<"Goheung", 8391>>, <<"Suncheonman", 10027>>>>

RECURSIVE Gcd(_, _)
Gcd(a, b) == IF b = 0 THEN a ELSE Gcd(b, a % b)

RECURSIVE LcmUpTo(_)
LcmUpTo(n) == IF n <= 1 THEN 1 ELSE (LcmUpTo(n - 1) * n) \div Gcd(LcmUpTo(n - 1), n)

\* label x positions are hundredths of a km times XScale
XScale == LcmUpTo(Max(MaxRows, Max(MaxGroupRows, MaxLayoutRows)))

clamp_x(x) == Min(Max(x, (MIN_KM + 5) * XScale), (MAX_KM - 5) * XScale)

\* the format "{:.2f}k" of a km given in hundredths
Fmt2(x) == [text |-> "k", neg |-> x < 0, int |-> Abs(x) \div 100, frac |-> Abs(x) % 100]

RECURSIVE DrawFixed_staggered(_, _)
\* the fixed points loop, had its labels been staggered like the group labels
DrawFixed_staggered(fixed_points, i) ==
    IF i > Len(fixed_points) THEN <<>>
    ELSE LET name == fixed_points[i][1]
             km == fixed_points[i][2]
         IN IF km < MIN_KM \/ km > MAX_KM
            THEN DrawFixed_staggered(fixed_points, i + 1)
            ELSE <<[name |-> name,
                    km |-> km,
                    vline |-> <<km, y_down - 35, y_up + 35>>,
                    lw |-> IF name = "Jisa gijun" THEN 22 ELSE 12,
                    x |-> km,
                    y |-> UP_Y_LEVELS[(i % 6) + 1] + TEXT_DY,
                    text |-> <<name, Fmt2(km)>>]>>
                 \o DrawFixed_staggered(fixed_points, i + 1)

RECURSIVE DrawFixed(_, _)
\* the fixed points loop: the vertical line and the label of each point in range
DrawFixed(fixed_points, i) ==
    IF i > Len(fixed_points) THEN <<>>
    ELSE LET name == fixed_points[i][1]
             km == fixed_points[i][2]
         IN IF km < MIN_KM \/ km > MAX_KM
            THEN DrawFixed(fixed_points, i + 1)
            ELSE <<[name |-> name,
                    km |-> km,
                    vline |-> <<km, y_down - 35, y_up + 35>>,
                    lw |-> IF name = "Jisa gijun" THEN 22 ELSE 12,
                    x |-> km,
                    y |-> y_up + TEXT_DY,
                    text |-> <<name, Fmt2(km)>>]>>
                 \o DrawFixed(fixed_points, i + 1)

\* the test of iter_groups, had abs() been left out
Near_signed(prev_km, km, threshold_km) == prev_km - km <= threshold_km

\* abs(float(prev_km) - float(km)) <= float(threshold_km)
Near(prev_km, km, threshold_km) == Abs(prev_km - km) <= threshold_km

RECURSIVE IterGroupsFrom(_, _, _, _, _, _)
\* the loop of iter_groups: prev_km is <<>> for None
IterGroupsFrom(sorted_df, threshold_km, i, prev_km, group, out) ==
    IF i > Len(sorted_df)
    THEN IF group # <<>> THEN Append(out, group) ELSE out
    ELSE LET row == sorted_df[i]
             km == row.km
         IN IF km = NaN
            THEN IterGroupsFrom(sorted_df, threshold_km, i + 1, prev_km, group, out)
            ELSE IF prev_km = <<>>
            THEN IterGroupsFrom(sorted_df, threshold_km, i + 1, <<km>>, <<row>>, out)
            ELSE IF Near(prev_km[1], km, threshold_km)
            THEN IterGroupsFrom(sorted_df, threshold_km, i + 1, <<km>>,
                                Append(group, row), out)
            ELSE IterGroupsFrom(sorted_df, threshold_km, i + 1, <<km>>,
                                <<row>>, Append(out, group))

\* iter_groups, had the yield after the loop been left out
iter_groups_no_last(sorted_df, threshold_km) ==
    LET gs == IterGroupsFrom(sorted_df, threshold_km, 1, <<>>, <<>>, <<>>)
    IN SubSeq(gs, 1, Len(gs) - 1)

iter_groups(sorted_df, threshold_km) ==
    IterGroupsFrom(sorted_df, threshold_km, 1, <<>>, <<>>, <<>>)

RECURSIVE SumSeq(_)
SumSeq(s) == IF s = <<>> THEN 0 ELSE Head(s) + SumSeq(Tail(s))

RECURSIVE MinSeq(_)
MinSeq(s) == IF Len(s) = 1 THEN s[1] ELSE Min(Head(s), MinSeq(Tail(s)))

RECURSIVE MaxSeq(_)
MaxSeq(s) == IF Len(s) = 1 THEN s[1] ELSE Max(Head(s), MaxSeq(Tail(s)))

\* kms = [float(r[KM_COL]) for _, r in g if pd.notna(r[KM_COL])]
GroupKms(g) ==
    LET known(row) == row.km # NaN
        rows == SelectSeq(g, known)
    IN [i \in 1..Len(rows) |-> rows[i].km]

\* the label text, had the range form been used for every group
LabelText_always_range(n1, n2) == <<n1, n2>>

\* "(n1~n2)" or "(n)"
LabelText(n1, n2) == IF n1 # n2 THEN <<n1, n2>> ELSE <<n1>>

\* the y level, had the labels only alternated between two levels
YText_two_levels(levels, g_idx) == levels[(g_idx % 2) + 1]

\* the y level of the label of group g_idx on a line
YText(levels, g_idx) == levels[(g_idx % Len(levels)) + 1]

\* the x offset of the label of group g_idx
XOffset(g_idx) == X_OFFSETS[(g_idx % Len(X_OFFSETS)) + 1]

\* the x position of the label of a group anchored at km_anchor (times XScale)
XText(km_anchor, x_offset) ==
    clamp_x(IF km_anchor < (MIN_KM + EDGE_MARGIN_KM) * XScale
            THEN km_anchor + Abs(x_offset) * XScale
            ELSE IF km_anchor > (MAX_KM - EDGE_MARGIN_KM) * XScale
            THEN km_anchor - Abs(x_offset) * XScale
            ELSE km_anchor + x_offset * XScale)

\* one pass of a label loop: the markers, the leader line and the label of g
DrawGroup(g_idx, g, y_line, levels) ==
    LET kms == GroupKms(g)
        nums == [i \in 1..Len(g) |-> g[i].num]
        km_anchor == (SumSeq(kms) * XScale) \div Len(kms)
        x_text == XText(km_anchor, XOffset(g_idx))
        y_text == YText(levels, g_idx)
    IN [markers |-> [i \in 1..Len(kms) |-> <<kms[i], y_line>>],
        leader |-> <<km_anchor, y_line, x_text, y_text>>,
        label |-> LabelText(MinSeq(nums), MaxSeq(nums)),
        x_text |-> x_text,
        y_text |-> y_text]

RECURSIVE DrawGroups(_, _, _, _)
\* for g_idx, g in enumerate(iter_groups(...)): a group without kms is skipped
DrawGroups(gs, i, y_line, levels) ==
    IF i > Len(gs) THEN <<>>
    ELSE IF GroupKms(gs[i]) = <<>> THEN DrawGroups(gs, i + 1, y_line, levels)
    ELSE <<DrawGroup(i - 1, gs[i], y_line, levels)>>
         \o DrawGroups(gs, i + 1, y_line, levels)

\* the IC marks on both lines
DrawIC(ic) ==
    IF ic # <<>> /\ MIN_KM <= ic[1] /\ ic[1] <= MAX_KM
    THEN <<[x |-> ic[1], y |-> y_up + 32, text |-> Fmt2(ic[1])],
           [x |-> ic[1], y |-> y_down - 32, text |-> Fmt2(ic[1])]>>
    ELSE <<>>

\* the groups of the two label loops of draw_route
RouteGroups(up_df, down_df, threshold_km) ==
    [up |-> iter_groups(reset_index(sort_values(up_df, FALSE)), threshold_km),
     down |-> iter_groups(reset_index(sort_values(down_df, TRUE)), threshold_km)]

draw_route(up_df, down_df, ic, threshold_km, fixed_points) ==
    LET gs == RouteGroups(up_df, down_df, threshold_km)
    IN [kind |-> "route",
        fixed |-> DrawFixed(fixed_points, 1),
        up |-> DrawGroups(gs.up, 1, y_up, UP_Y_LEVELS),
        down |-> DrawGroups(gs.down, 1, y_down, DOWN_Y_LEVELS),
        ic |-> DrawIC(ic)]

\* -------------------------------------------------- list page (section 8)
fmt_km(x) ==
    IF x # NaN THEN Fmt2(x)
    ELSE [text |-> "km unknown", neg |-> FALSE, int |-> 0, frac |-> 0]

ListLines(d) ==
    [i \in 1..Len(d) |-> [num |-> d[i].num, disp |-> d[i].disp, km |-> fmt_km(d[i].km)]]

draw_list_page(up_df, down_df) ==
    [kind |-> "list",
     up_lines |-> ListLines(up_df),
     up_none |-> ListLines(up_df) = <<>>,
     down_lines |-> ListLines(down_df),
     down_none |-> ListLines(down_df) = <<>>]

\* ----------------------------------------------- one run of the script
NoGroups == [up |-> <<>>, down |-> <<>>]

\* the PDF export block, had the list page been saved first
SavePdf_list_first(fig_route, fig_list) == <<fig_list, fig_route>>

\* the PDF export block: the pages in the order of pdf.savefig
SavePdf(fig_route, fig_list) == <<fig_route, fig_list>>

\* what one run of the script leaves, for the widget values given
Script(sy, ss, thr, btn) ==
    LET up == Numbered(df_up(sy), FALSE)
        down == Numbered(df_down(ss), TRUE)
        fig_route == draw_route(up, down, IcKm, thr, FIXED_POINTS)
        fig_list == draw_list_page(up, down)
    IN [df_up_sorted |-> up,
        df_down_sorted |-> down,
        ic_km |-> IcKm,
        groups |-> IF btn THEN RouteGroups(up, down, thr) ELSE NoGroups,
        preview |-> IF btn THEN <<fig_route>> ELSE <<>>,
        pdf_buffer |-> IF btn THEN SavePdf(fig_route, fig_list) ELSE <<>>,
        download_button |-> btn]

\* the first run: every widget at its default
InitWith(frames) ==
    /\ df \in frames
    /\ selected_yeongam = {}
    /\ selected_suncheon = {}
    /\ group_threshold_km = 3
    /\ button = FALSE
    /\ \E r \in {Script({}, {}, 3, FALSE)} :
          /\ df_up_sorted = r.df_up_sorted
          /\ df_down_sorted = r.df_down_sorted
          /\ ic_km = r.ic_km
          /\ groups = r.groups
          /\ preview = r.preview
          /\ pdf_buffer = r.pdf_buffer
          /\ download_button = r.download_button

Init == InitWith(DataFrames(Rows, MaxRows))

InitGroup == InitWith(DataFrames(GroupRows, MaxGroupRows))

InitLayout == InitWith(LayoutFrames)

\* a rerun of the whole script with the widget values given
Rerun(sy, ss, thr, btn) ==
    /\ df' = df
    /\ selected_yeongam' = sy
    /\ selected_suncheon' = ss
    /\ group_threshold_km' = thr
    /\ button' = btn
    /\ \E r \in {Script(sy, ss, thr, btn)} :
          /\ df_up_sorted' = r.df_up_sorted
          /\ df_down_sorted' = r.df_down_sorted
          /\ ic_km' = r.ic_km
          /\ groups' = r.groups
          /\ preview' = r.preview
          /\ pdf_buffer' = r.pdf_buffer
          /\ download_button' = r.download_button

\* the user changes the Yeongam multiselect
SelectYeongam ==
    \E sel \in SUBSET yeongam_options :
        /\ sel # selected_yeongam
        /\ Rerun(sel, selected_suncheon, group_threshold_km, FALSE)

\* the user changes the Suncheon multiselect
SelectSuncheon ==
    \E sel \in SUBSET suncheon_options :
        /\ sel # selected_suncheon
        /\ Rerun(selected_yeongam, sel, group_threshold_km, FALSE)

\* the user changes the grouping threshold
SetThreshold ==
    \E thr \in Thresholds :
        /\ thr # group_threshold_km
        /\ Rerun(selected_yeongam, selected_suncheon, thr, FALSE)

\* the user presses the generate button
PressButton ==
    Rerun(selected_yeongam, selected_suncheon, group_threshold_km, TRUE)

Next == SelectYeongam \/ SelectSuncheon \/ SetThreshold \/ PressButton

Spec == Init /\ [][Next]_vars

SpecGroup == InitGroup /\ [][Next]_vars

SpecLayout == InitLayout /\ [][Next]_vars

\* ------------------------------------------------------------ claims
\* the pandas index labels of the rows of a frame filtered from df
IndexOf(d) == {d[i].idx : i \in 1..Len(d)}

\* C1 as stated: every record of df is a member of exactly one of
\* df_up_base and df_down_base, never both and never neither.
C1_ExactlyOneBase ==
    \A i \in 1..Len(df) :
        (df[i].idx \in IndexOf(df_up_base)) # (df[i].idx \in IndexOf(df_down_base))

\* C1 amended: every record is a member of at least one base set; it is a
\* member of exactly one when its name contains exactly one of the two
\* direction words, and of both when it contains both or neither.
C1_BaseMembership ==
    \A i \in 1..Len(df) :
        LET inUp == df[i].idx \in IndexOf(df_up_base)
            inDown == df[i].idx \in IndexOf(df_down_base)
            y == Contains(df[i].name, "Yeongam")
            s == Contains(df[i].name, "Suncheon")
        IN /\ inUp \/ inDown
           /\ (y # s) => (inUp # inDown) /\ (inUp = y)
           /\ (y = s) => inUp /\ inDown

\* a record whose name holds both words is in both base sets, next to a
\* record of the Suncheon direction that is in one only
C1_Witness ==
    \E i, j \in 1..Len(df) :
        /\ df[i].name = NameBoth
        /\ df[i].idx \in IndexOf(df_up_base) \cap IndexOf(df_down_base)
        /\ df[j].name = NameSuncheon
        /\ df[j].idx \in IndexOf(df_down_base) \ IndexOf(df_up_base)

\* C2: in each direction the numbers are exactly 1..N, each used once, and
\* follow the km order: in the Yeongam direction a larger known km never has
\* the larger number, in the Suncheon direction a smaller known km never has.
C2_SequentialNumbers ==
    /\ \A d \in {df_up_sorted, df_down_sorted} :
          /\ {d[i].num : i \in 1..Len(d)} = 1..Len(d)
          /\ \A i, j \in 1..Len(d) : i # j => d[i].num # d[j].num
    /\ \A i, j \in 1..Len(df_up_sorted) :
          LET a == df_up_sorted[i]
              b == df_up_sorted[j]
          IN (a.km # NaN /\ b.km # NaN /\ a.km > b.km) => ~(a.num > b.num)
    /\ \A i, j \in 1..Len(df_down_sorted) :
          LET a == df_down_sorted[i]
              b == df_down_sorted[j]
          IN (a.km # NaN /\ b.km # NaN /\ a.km < b.km) => ~(a.num > b.num)

\* a selection leaves a record out; the file holds an unknown km before two
\* known ones in rising order, so that the Yeongam direction had to be sorted
C2_Witness ==
    /\ selected_yeongam = {NameNeutral}
    /\ Len(df) = 4
    /\ df[1].km = NaN
    /\ df[2].km # NaN /\ df[3].km # NaN /\ df[2].km < df[3].km
    /\ df[4].name = NameYeongam
    /\ Len(df_up_sorted) = 3
    /\ Len(df_down_sorted) = 3
    /\ df_up_sorted[1].km = df[3].km
    /\ df_up_sorted[3].km = NaN
    /\ df_down_sorted[1].km = df[2].km

\* the labels of the two lines of the route page of the latest run
RouteLabels == IF button THEN {pdf_buffer[1].up, pdf_buffer[1].down} ELSE {}

\* C3 as stated: no two group labels of one direction line have the same
\* text position (x_text, y_text).
C3_NoSamePosition ==
    \A labels \in RouteLabels :
        \A i, j \in 1..Len(labels) :
            i # j => <<labels[i].x_text, labels[i].y_text>>
                        # <<labels[j].x_text, labels[j].y_text>>

\* C3 amended: two group labels of one direction line have different text
\* positions unless their places in the drawing order differ by a multiple
\* of 6, the length of the offset pattern.
C3_NoSamePositionWithinPattern ==
    \A labels \in RouteLabels :
        \A i, j \in 1..Len(labels) :
            (i - j) % 6 # 0 => <<labels[i].x_text, labels[i].y_text>>
                                  # <<labels[j].x_text, labels[j].y_text>>

\* seven labels on a line, two of them within the pattern at the same x
C3_Witness ==
    \E labels \in RouteLabels :
        /\ Len(labels) >= 7
        /\ \E i, j \in 1..Len(labels) :
              /\ (i - j) % 6 # 0
              /\ labels[i].x_text = labels[j].x_text

\* C4: the download is offered in exactly the runs where the button was
\* pressed, and the PDF then holds two pages: first the route page, then the
\* list page, both drawn from df_up_sorted and df_down_sorted of that run.
C4_TwoPagesInOrder ==
    /\ download_button <=> button
    /\ ~button => pdf_buffer = <<>>
    /\ button =>
          /\ Len(pdf_buffer) = 2
          /\ pdf_buffer[1].kind = "route"
          /\ pdf_buffer[2].kind = "list"
          /\ pdf_buffer[1] = draw_route(df_up_sorted, df_down_sorted, ic_km,
                                        group_threshold_km, FIXED_POINTS)
          /\ pdf_buffer[2] = draw_list_page(df_up_sorted, df_down_sorted)

\* the button was pressed with records and a selection in both directions
C4_Witness ==
    /\ button
    /\ download_button
    /\ selected_yeongam # {}
    /\ df_up_sorted # <<>>
    /\ df_down_sorted # <<>>
    /\ df_up_sorted # df_down_sorted
    /\ Len(pdf_buffer) = 2

\* the entries of FIXED_POINTS within the diagram, as they are to be drawn
FixedInRange ==
    {<<FIXED_POINTS[i][1], FIXED_POINTS[i][2], FIXED_POINTS[i][2], y_up + 40>> :
        i \in {k \in 1..Len(FIXED_POINTS) :
                  0 <= FIXED_POINTS[k][2] /\ FIXED_POINTS[k][2] <= 10680}}

\* C5: whatever the records, the selections, the IC km and the threshold,
\* the fixed points drawn (name, km, label position) are the entries of
\* FIXED_POINTS within [0, 106.8], labelled at their km and at y_up + 0.40.
C5_FixedPointsFrame ==
    button =>
        LET fixed == pdf_buffer[1].fixed
        IN {<<fixed[i].name, fixed[i].km, fixed[i].x, fixed[i].y>> :
               i \in 1..Len(fixed)} = FixedInRange

\* a drawing with an IC mark, a selection, a threshold off its default and
\* group labels on the upper line
C5_Witness ==
    /\ button
    /\ ic_km # <<>>
    /\ selected_yeongam # {}
    /\ group_threshold_km # 3
    /\ pdf_buffer[1].up # <<>>
    /\ pdf_buffer[1].ic # <<>>
    /\ Len(pdf_buffer[1].fixed) = 8

\* the two label loops of the latest drawing: the groups yielded, the labels
\* drawn and the numbered frame the groups were made of
RouteLines ==
    IF button
    THEN {[gs |-> groups.up, labels |-> pdf_buffer[1].up, d |-> df_up_sorted],
          [gs |-> groups.down, labels |-> pdf_buffer[1].down, d |-> df_down_sorted]}
    ELSE {}

SetMin(S) == CHOOSE x \in S : \A y \in S : x <= y

SetMax(S) == CHOOSE x \in S : \A y \in S : x >= y

\* the numbers a label text denotes
LabelRange(text) == IF Len(text) = 1 THEN {text[1]} ELSE text[1]..text[2]

\* C6: every group has one label, "(n)" when the least and the greatest
\* number of its records coincide and "(n1~n2)" otherwise; the numbers n1..n2
\* are exactly the numbers of the group's records, so that every numbered
\* record with a known km is in the range of exactly one label of its
\* direction, the label of its own group.
C6_OneLabelPerGroup ==
    \A line \in RouteLines :
        LET gs == line.gs
            labels == line.labels
            d == line.d
            nums(g) == {gs[g][i].num : i \in 1..Len(gs[g])}
        IN /\ Len(labels) = Len(gs)
           /\ \A g \in 1..Len(gs) :
                 /\ Len(labels[g].label) = IF SetMin(nums(g)) = SetMax(nums(g)) THEN 1 ELSE 2
                 /\ labels[g].label[1] = SetMin(nums(g))
                 /\ labels[g].label[Len(labels[g].label)] = SetMax(nums(g))
                 /\ LabelRange(labels[g].label) = nums(g)
           /\ \A r \in 1..Len(d) :
                 d[r].km # NaN =>
                    \E g \in 1..Len(gs) :
                       /\ \E i \in 1..Len(gs[g]) :
                             gs[g][i].num = d[r].num /\ gs[g][i].km = d[r].km
                       /\ \A h \in 1..Len(gs) :
                             d[r].num \in LabelRange(labels[h].label) <=> h = g
           /\ \A r \in 1..Len(d) :
                 d[r].km = NaN =>
                    \A h \in 1..Len(gs) : d[r].num \notin LabelRange(labels[h].label)

\* a line with a range label, a single label and a record of unknown km
C6_Witness ==
    \E line \in RouteLines :
        /\ \E g \in 1..Len(line.labels) : Len(line.labels[g].label) = 2
        /\ \E g \in 1..Len(line.labels) : Len(line.labels[g].label) = 1
        /\ \E r \in 1..Len(line.d) : line.d[r].km = NaN

\* C7 as stated: with a threshold >= 0, any two records of one group differ
\* in km by at most the threshold.
C7_GroupWithinThreshold ==
    group_threshold_km >= 0 =>
        \A line \in RouteLines :
            \A g \in 1..Len(line.gs) :
                \A i, j \in 1..Len(line.gs[g]) :
                    Abs(line.gs[g][i].km - line.gs[g][j].km) <= group_threshold_km

\* C7 amended: with a threshold >= 0, any two records adjacent in one group
\* differ in km by at most the threshold, and any two records of a group of
\* k records by at most (k - 1) times the threshold.
C7_GroupChainedWithinThreshold ==
    group_threshold_km >= 0 =>
        \A line \in RouteLines :
            \A g \in 1..Len(line.gs) :
                LET grp == line.gs[g]
                IN /\ \A i \in 1..(Len(grp) - 1) :
                         Abs(grp[i].km - grp[i + 1].km) <= group_threshold_km
                   /\ \A i, j \in 1..Len(grp) :
                         Abs(grp[i].km - grp[j].km)
                            <= (Len(grp) - 1) * group_threshold_km

\* a group of three records chained by the threshold, its ends further
\* apart than the threshold
C7_Witness ==
    /\ group_threshold_km > 0
    /\ \E line \in RouteLines :
          \E g \in 1..Len(line.gs) :
              /\ Len(line.gs[g]) = 3
              /\ Abs(line.gs[g][1].km - line.gs[g][3].km) > group_threshold_km

RECURSIVE Flatten(_)
Flatten(ss) == IF ss = <<>> THEN <<>> ELSE Head(ss) \o Flatten(Tail(ss))

\* the group that holds the k-th record of the concatenated groups
GroupOf(gs, k) ==
    CHOOSE g \in 1..Len(gs) :
        /\ Len(Flatten(SubSeq(gs, 1, g - 1))) < k
        /\ k <= Len(Flatten(SubSeq(gs, 1, g)))

\* C8: the groups are non-empty and, concatenated in yield order, are the
\* records of known km in input order, each once; two records adjacent in
\* that order are in one group exactly when their km differ by at most the
\* threshold.
C8_GroupsPartition ==
    \A line \in RouteLines :
        LET gs == line.gs
            known(row) == row.km # NaN
            flat == Flatten(gs)
        IN /\ \A g \in 1..Len(gs) : gs[g] # <<>>
           /\ flat = SelectSeq(line.d, known)
           /\ \A k \in 1..(Len(flat) - 1) :
                 (GroupOf(gs, k) = GroupOf(gs, k + 1))
                    <=> (Abs(flat[k].km - flat[k + 1].km) <= group_threshold_km)

\* a line split into a group of two and a later group, an unknown km left out
C8_Witness ==
    \E line \in RouteLines :
        /\ Len(line.gs) >= 2
        /\ \E g \in 1..Len(line.gs) : Len(line.gs[g]) >= 2
        /\ \E r \in 1..Len(line.d) : line.d[r].km = NaN

====
